---- MODULE Spec2Model ----
(***************************************************************************)
(* State-machine model of the ARMeasurement component                     *)
(* (src/unnamed/part_002, lines 543-1144): the camera-relative room       *)
(* measurement session with its calibration unit, stability detector,    *)
(* capture state machine and polygon statistics.                          *)
(*                                                                         *)
(* Numbers.  Pixel coordinates are the viewport centres; the viewports    *)
(* of the model are chosen so that every centre has integer coordinates   *)
(* and every distance between two centres is an integer, hence Math.sqrt  *)
(* is exact on the whole domain.  pixelsPerFoot is a ratio n/d in lowest  *)
(* terms.  Distances typed into the calibration dialog are counted in     *)
(* half feet (the -/+ buttons step by 0.5).  Values reported with         *)
(* toFixed(2) are integers counting hundredths.  Where the statistics are  *)
(* applied to arbitrary grid points the square roots are not whole, and    *)
(* the model keeps the rounding of every operation (StatsPxNumber).        *)
(*                                                                         *)
(* Time.  All events happen on a grid of TickPeriod milliseconds.  The    *)
(* code reads lastMotionRef only through Date.now() - lastMotionRef       *)
(* (line 699), so the model keeps that difference, sinceMotion, and       *)
(* stops counting it once it is beyond StableAfter.  Pending setTimeout   *)
(* callbacks are kept as the set of their remaining delays.               *)
(***************************************************************************)
EXTENDS Integers, Naturals, Sequences, FiniteSets, TLC

\* ------------------------------------------------------------------ bounds
\* Longest vertex sequence the model lets a capture build: in the
\* specification driven by the user alone, and in the one that runs the clock.
MaxVerts == 4
MaxVertsClock == 3
\* Range, in half feet, in which the dialog's - and + buttons are followed:
\* from InputBelow under zero up to InputHi.
InputBelow == 1
InputHi == 1
\* Bits of significand the model keeps of a Number where a sum of square
\* roots is rounded, and the longest vertex list drawn on the grid.
MantissaBits == 10
MaxPoly == 3

\* Rooms handed to addRoom: whole sides up to MaxSide feet, SideSteps
\* neighbouring Numbers above each, and at most MaxRooms rooms added.
MaxSide == 3
SideSteps == 3
MaxRooms == 1

\* --------------------------------------------------------- program constants
CloseRadius == 30
DefaultPixelsPerFoot == 35
DefaultDistanceInput == 6
MotionThreshold == 8
StableAfter == 400
FillSpeed == 8
FullProgress == 100
CooldownMs == 1500
TickPeriod == 50

\* ------------------------------------------------------------- environment
\* Sizes the container can take (getBoundingClientRect); the centres are
\* (100,100), (130,100) and (100,116): pairwise 30, 16 and 34 pixels apart.
Viewports ==
  { [w |-> 200, h |-> 200], [w |-> 260, h |-> 200], [w |-> 200, h |-> 232] }
\* The first two of them, for the specification that also runs the clock.
TwoViewports == { [w |-> 200, h |-> 200], [w |-> 260, h |-> 200] }

\* parseFloat of the dialog's text: a number of half feet, or NaN.
NaN == [nan |-> TRUE, half |-> 0]
Feet2(h) == [nan |-> FALSE, half |-> h]
TypedInputs == { NaN, Feet2(0), Feet2(6) }

\* Motion magnitudes of devicemotion samples, in tenths.
Magnitudes == { 8, 9 }

\* Vertex lists handed to the statistics directly: points of a small grid.
Grid == 0..3
GridPoints == { [x |-> a, y |-> b] : a, b \in Grid }

VARIABLES
  points, isClosed,
  isCalibrating, calibrationPoints, pixelsPerFoot, showCalibrationModal,
  calibrationDistanceInput,
  isAutoScan, scanProgress, sinceMotion, scanCooldownRef, timeouts, intervalOn,
  viewport, mounted, camera, completeCalls, cancelCalls, result, threw, rooms,
  lastOp, trace

polyVars == << points, isClosed >>
calVars == << isCalibrating, calibrationPoints, pixelsPerFoot,
              showCalibrationModal, calibrationDistanceInput >>
scanVars == << isAutoScan, scanProgress, sinceMotion, scanCooldownRef,
               timeouts, intervalOn >>
sessVars == << viewport, mounted, camera, completeCalls, cancelCalls,
               result, threw, rooms >>
vars == << polyVars, calVars, scanVars, sessVars, lastOp, trace >>

\* ------------------------------------------------------------ pure helpers
Abs(n) == IF n < 0 THEN -n ELSE n

Min(a, b) == IF a < b THEN a ELSE b

RECURSIVE GCD(_, _)
GCD(a, b) == IF b = 0 THEN a ELSE GCD(b, a % b)

\* Math.sqrt on the squares the model produces (exact there).
Sqrt(n) == CHOOSE r \in 0..n : r * r <= n /\ (r + 1) * (r + 1) > n

\* { x: width / 2, y: height / 2 }
Center(v) == [x |-> v.w \div 2, y |-> v.h \div 2]

\* Variant of calculatePixelDistance: never less than one pixel.
calculatePixelDistanceAtLeastOne(p1, p2) ==
  LET dx == p1.x - p2.x
      dy == p1.y - p2.y
      d == Sqrt(dx * dx + dy * dy)
  IN  IF d = 0 THEN 1 ELSE d

calculatePixelDistance(p1, p2) ==
  LET dx == p1.x - p2.x
      dy == p1.y - p2.y
  IN  Sqrt(dx * dx + dy * dy)

\* A ratio n/d in lowest terms.
Ratio(n, d) == LET g == GCD(n, d) IN [n |-> n \div g, d |-> d \div g]

\* parseFloat(x.toFixed(2)) of the non-negative ratio num/den, in hundredths.
Round2(num, den) == (200 * num + den) \div (2 * den)

\* ------------------------------------------------------- polygon statistics
\* for (i = 0; i < limit; i++) perimeterPx += distance(p[i], p[(i+1) % len])
RECURSIVE EdgeSum(_, _)
EdgeSum(pts, limit) ==
  IF limit = 0 THEN 0
  ELSE EdgeSum(pts, limit - 1)
       + calculatePixelDistance(pts[limit], pts[(limit % Len(pts)) + 1])

\* for (i = 0; i < len; i++) { j = (i+1) % len; a += xi*yj; a -= xj*yi }
RECURSIVE Shoelace(_, _)
Shoelace(pts, k) ==
  IF k = 0 THEN 0
  ELSE LET j == (k % Len(pts)) + 1
       IN  Shoelace(pts, k - 1) + pts[k].x * pts[j].y - pts[j].x * pts[k].y

\* Variant of StatsPx: the live vertex is counted although the polygon is closed.
StatsPxLive(pts, closed, vp) ==
  LET polygonPoints == Append(pts, Center(vp))
  IN  [perimeter |-> EdgeSum(pts, Len(pts) - 1)
                     + calculatePixelDistance(pts[Len(pts)], Center(vp)),
       area2 |-> IF Len(polygonPoints) >= 3
                 THEN Abs(Shoelace(polygonPoints, Len(polygonPoints))) ELSE 0]

\* The pixel quantities of stats: perimeterPx, and twice areaPx (an integer).
StatsPx(pts, closed, vp) ==
  LET loopLimit == IF closed THEN Len(pts) ELSE Len(pts) - 1
      live == IF ~closed /\ Len(pts) > 0
              THEN calculatePixelDistance(pts[Len(pts)], Center(vp)) ELSE 0
      polygonPoints == IF closed THEN pts ELSE Append(pts, Center(vp))
  IN  [perimeter |-> EdgeSum(pts, loopLimit) + live,
       area2 |-> IF Len(polygonPoints) >= 3
                 THEN Abs(Shoelace(polygonPoints, Len(polygonPoints))) ELSE 0]

\* ------------------------------------------- statistics in Number arithmetic
\* StatsPx above computes in whole numbers, which is what the code computes
\* where every distance is whole (the viewport centres of this model).  For
\* arbitrary grid points the square roots are not whole and every operation
\* rounds to the nearest Number, ties to even.  A Number is kept here as a
\* whole count of Unit-ths, Unit being the spacing-1 point of the binade of
\* 1.0; the significand has MantissaBits bits in place of 53.
Unit == 2 ^ (MantissaBits - 1)

\* Spacing of the Numbers around v.
RECURSIVE Ulp(_)
Ulp(v) == IF v < 2 * Unit THEN 1 ELSE 2 * Ulp(v \div 2)

\* The Number nearest to the exact value v.
RoundNumber(v) ==
  LET q == Ulp(v)
      r == v % q
      down == v - r
  IN  IF 2 * r < q THEN down
      ELSE IF 2 * r > q THEN down + q
      ELSE IF (down \div q) % 2 = 0 THEN down ELSE down + q

\* Integer part of the square root of n.
RECURSIVE ISqrt(_)
ISqrt(n) ==
  IF n < 2 THEN n
  ELSE LET s == 2 * ISqrt(n \div 4)
       IN  IF (s + 1) * (s + 1) <= n THEN s + 1 ELSE s

\* Math.sqrt(n) for a whole n: the Number nearest to the root.
SqrtNumber(n) ==
  IF n = 0 THEN 0
  ELSE LET q == Ulp(ISqrt(n) * Unit)
           scaled == (n * Unit * Unit) \div (q * q)
       IN  q * ((ISqrt(4 * scaled) + 1) \div 2)

calculatePixelDistanceNumber(p1, p2) ==
  LET dx == p1.x - p2.x
      dy == p1.y - p2.y
  IN  SqrtNumber(dx * dx + dy * dy)

\* perimeterPx += calculatePixelDistance(...), in the order of the loop.
RECURSIVE EdgeSumNumber(_, _)
EdgeSumNumber(pts, limit) ==
  IF limit = 0 THEN 0
  ELSE RoundNumber(EdgeSumNumber(pts, limit - 1)
                   + calculatePixelDistanceNumber(pts[limit],
                                                  pts[(limit % Len(pts)) + 1]))

\* Variant of StatsPxNumber: the sign of the shoelace sum is kept.
StatsPxNumberSigned(pts) ==
  [perimeter |-> EdgeSumNumber(pts, Len(pts)),
   area2 |-> IF Len(pts) >= 3 THEN Shoelace(pts, Len(pts)) ELSE 0]

\* stats of a closed vertex list: perimeterPx as a Number, and twice areaPx
\* (sums of products of small whole numbers are exact).
StatsPxNumber(pts) ==
  [perimeter |-> EdgeSumNumber(pts, Len(pts)),
   area2 |-> IF Len(pts) >= 3 THEN Abs(Shoelace(pts, Len(pts))) ELSE 0]

\* stats: { area: areaPx / ppf^2, perimeter: perimeterPx / ppf }, as ratios.
stats(pts, closed, ppf, vp) ==
  IF Len(pts) < 2
  THEN [area |-> [num |-> 0, den |-> 1], perimeter |-> [num |-> 0, den |-> 1]]
  ELSE LET px == StatsPx(pts, closed, vp)
       IN  [area |-> [num |-> px.area2 * ppf.d * ppf.d, den |-> 2 * ppf.n * ppf.n],
            perimeter |-> [num |-> px.perimeter * ppf.d, den |-> ppf.n]]

\* The arguments of onComplete: both values through toFixed(2).
Report(pts, closed, ppf, vp) ==
  LET s == stats(pts, closed, ppf, vp)
  IN  [area |-> Round2(s.area.num, s.area.den),
       perimeter |-> Round2(s.perimeter.num, s.perimeter.den)]

\* ------------------------------------------------------- room dimensions
\* Number arithmetic for addRoom (lines 83-134), whose inputs are not whole.
Max(a, b) == IF a > b THEN a ELSE b

\* The Number nearest to the exact quotient n / d (n >= 0, d > 0), ties to
\* even: the result of every multiplication and division below.
NumberOf(n, d) ==
  LET q == Ulp(n \div d)
      k == n \div (d * q)
      r == n - k * d * q
  IN  IF 2 * r < d * q THEN k * q
      ELSE IF 2 * r > d * q THEN (k + 1) * q
      ELSE IF k % 2 = 0 THEN k * q ELSE (k + 1) * q

\* a - b as a Number, of either sign.
SubNumber(a, b) == IF a >= b THEN RoundNumber(a - b) ELSE -RoundNumber(b - a)

\* Math.sqrt(v) for a Number v: the Number nearest to the root.
SqrtOfNumber(v) ==
  IF v = 0 THEN 0
  ELSE LET n == v * Unit
           q == Ulp(ISqrt(n))
           m == ISqrt(n \div (q * q))
       IN  \* root >= (m + 1/2) * q, that is 4 * n >= (2 * m + 1)^2 * q^2
           IF 4 * (n - (m * m + m) * q * q) >= q * q
           THEN (m + 1) * q ELSE m * q

\* parseFloat(v.toFixed(2)): the nearest hundredth, then the Number nearest
\* to that decimal.
ToFixed2Number(v) ==
  NumberOf(((200 * v + Unit) \div (2 * Unit)) * Unit, 100)

\* Variant of effectiveDimensions: the larger root is taken as the width.
effectiveDimensionsSwapped(customArea, customPerimeter, width, length) ==
  IF customArea # 0 /\ customPerimeter # 0
  THEN LET semiPerimeter == NumberOf(customPerimeter, 2)
           discriminant ==
             SubNumber(NumberOf(semiPerimeter * semiPerimeter, Unit),
                       RoundNumber(4 * customArea))
       IN  IF discriminant >= 0
           THEN LET root == SqrtOfNumber(discriminant)
                    w1 == NumberOf(RoundNumber(semiPerimeter + root), 2)
                    w2 == NumberOf(SubNumber(semiPerimeter, root), 2)
                IN  [effectiveLength |-> Min(w1, w2),
                     effectiveWidth |-> Max(w1, w2),
                     discriminant |-> discriminant, branch |-> "roots"]
           ELSE [effectiveLength |-> SqrtOfNumber(customArea),
                 effectiveWidth |-> SqrtOfNumber(customArea),
                 discriminant |-> discriminant, branch |-> "square"]
  ELSE IF customArea # 0
  THEN [effectiveLength |-> SqrtOfNumber(customArea),
        effectiveWidth |-> SqrtOfNumber(customArea),
        discriminant |-> 0, branch |-> "areaOnly"]
  ELSE [effectiveLength |-> length, effectiveWidth |-> width,
        discriminant |-> 0, branch |-> "manual"]

\* Variant of effectiveDimensions: a discriminant of 0 takes the fallback.
effectiveDimensionsStrict(customArea, customPerimeter, width, length) ==
  IF customArea # 0 /\ customPerimeter # 0
  THEN LET semiPerimeter == NumberOf(customPerimeter, 2)
           discriminant ==
             SubNumber(NumberOf(semiPerimeter * semiPerimeter, Unit),
                       RoundNumber(4 * customArea))
       IN  IF discriminant > 0
           THEN LET root == SqrtOfNumber(discriminant)
                    w1 == NumberOf(RoundNumber(semiPerimeter + root), 2)
                    w2 == NumberOf(SubNumber(semiPerimeter, root), 2)
                IN  [effectiveLength |-> Max(w1, w2),
                     effectiveWidth |-> Min(w1, w2),
                     discriminant |-> discriminant, branch |-> "roots"]
           ELSE [effectiveLength |-> SqrtOfNumber(customArea),
                 effectiveWidth |-> SqrtOfNumber(customArea),
                 discriminant |-> discriminant, branch |-> "square"]
  ELSE IF customArea # 0
  THEN [effectiveLength |-> SqrtOfNumber(customArea),
        effectiveWidth |-> SqrtOfNumber(customArea),
        discriminant |-> 0, branch |-> "areaOnly"]
  ELSE [effectiveLength |-> length, effectiveWidth |-> width,
        discriminant |-> 0, branch |-> "manual"]

\* addRoom's "Smart Dimension Logic" (lines 91-112): effectiveLength and
\* effectiveWidth, with the discriminant computed and the branch taken.
\* width and length are the form fields as parseFloat(...) || 0 reads them.
effectiveDimensions(customArea, customPerimeter, width, length) ==
  IF customArea # 0 /\ customPerimeter # 0
  THEN LET semiPerimeter == NumberOf(customPerimeter, 2)
           discriminant ==
             SubNumber(NumberOf(semiPerimeter * semiPerimeter, Unit),
                       RoundNumber(4 * customArea))
       IN  IF discriminant >= 0
           THEN LET root == SqrtOfNumber(discriminant)
                    w1 == NumberOf(RoundNumber(semiPerimeter + root), 2)
                    w2 == NumberOf(SubNumber(semiPerimeter, root), 2)
                IN  [effectiveLength |-> Max(w1, w2),
                     effectiveWidth |-> Min(w1, w2),
                     discriminant |-> discriminant, branch |-> "roots"]
           ELSE [effectiveLength |-> SqrtOfNumber(customArea),
                 effectiveWidth |-> SqrtOfNumber(customArea),
                 discriminant |-> discriminant, branch |-> "square"]
  ELSE IF customArea # 0
  THEN [effectiveLength |-> SqrtOfNumber(customArea),
        effectiveWidth |-> SqrtOfNumber(customArea),
        discriminant |-> 0, branch |-> "areaOnly"]
  ELSE [effectiveLength |-> length, effectiveWidth |-> width,
        discriminant |-> 0, branch |-> "manual"]

\* addRoom (lines 83-134): the list of rooms it leaves.  Zero dimensions
\* raise the alert of line 115 and add nothing.
addRoom(rms, customArea, customPerimeter, width, length) ==
  LET d == effectiveDimensions(customArea, customPerimeter, width, length)
  IN  IF d.effectiveWidth = 0 \/ d.effectiveLength = 0
      THEN rms
      ELSE Append(rms, [width |-> ToFixed2Number(d.effectiveWidth),
                        length |-> ToFixed2Number(d.effectiveLength)])

\* -------------------------------------------------------------- handlers
\* Variant of CaptureOutcome: the dialog opens at the third reference point.
CaptureOutcomeLateModal(pts, closed, cal, calPts, modal, target) ==
  IF cal
  THEN [points |-> pts, isClosed |-> closed,
        calibrationPoints |-> Append(calPts, target),
        showCalibrationModal |-> modal \/ Len(calPts) + 1 = 3]
  ELSE IF closed
  THEN [points |-> pts, isClosed |-> closed,
        calibrationPoints |-> calPts, showCalibrationModal |-> modal]
  ELSE LET closes ==
             /\ Len(pts) >= 3
             /\ calculatePixelDistance(target, pts[1]) < CloseRadius
       IN  [points |-> IF closes THEN pts ELSE Append(pts, target),
            isClosed |-> closes,
            calibrationPoints |-> calPts, showCalibrationModal |-> modal]

\* Variant of CaptureOutcome: two vertices are enough to close.
CaptureOutcomeEarlyClose(pts, closed, cal, calPts, modal, target) ==
  IF cal
  THEN [points |-> pts, isClosed |-> closed,
        calibrationPoints |-> Append(calPts, target),
        showCalibrationModal |-> modal \/ Len(calPts) + 1 = 2]
  ELSE IF closed
  THEN [points |-> pts, isClosed |-> closed,
        calibrationPoints |-> calPts, showCalibrationModal |-> modal]
  ELSE LET closes ==
             /\ Len(pts) >= 2
             /\ calculatePixelDistance(target, pts[1]) < CloseRadius
       IN  [points |-> IF closes THEN pts ELSE Append(pts, target),
            isClosed |-> closes,
            calibrationPoints |-> calPts, showCalibrationModal |-> modal]

\* Variant of CaptureOutcome: a target exactly CloseRadius away closes too.
CaptureOutcomeInclusive(pts, closed, cal, calPts, modal, target) ==
  IF cal
  THEN [points |-> pts, isClosed |-> closed,
        calibrationPoints |-> Append(calPts, target),
        showCalibrationModal |-> modal \/ Len(calPts) + 1 = 2]
  ELSE IF closed
  THEN [points |-> pts, isClosed |-> closed,
        calibrationPoints |-> calPts, showCalibrationModal |-> modal]
  ELSE LET closes ==
             /\ Len(pts) >= 3
             /\ calculatePixelDistance(target, pts[1]) <= CloseRadius
       IN  [points |-> IF closes THEN pts ELSE Append(pts, target),
            isClosed |-> closes,
            calibrationPoints |-> calPts, showCalibrationModal |-> modal]

\* Variant of CaptureOutcome: the calibration branch does not return, so the
\* reference point is recorded as a vertex as well.
CaptureOutcomeFallThrough(pts, closed, cal, calPts, modal, target) ==
  IF closed
  THEN [points |-> pts, isClosed |-> closed,
        calibrationPoints |-> calPts, showCalibrationModal |-> modal]
  ELSE LET closes ==
             /\ Len(pts) >= 3
             /\ calculatePixelDistance(target, pts[1]) < CloseRadius
       IN  [points |-> IF closes THEN pts ELSE Append(pts, target),
            isClosed |-> closes,
            calibrationPoints |-> IF cal THEN Append(calPts, target) ELSE calPts,
            showCalibrationModal |-> modal \/ (cal /\ Len(calPts) + 1 = 2)]

\* Variant of CaptureOutcome: a new point is put in front of the list.
CaptureOutcomePrepends(pts, closed, cal, calPts, modal, target) ==
  IF cal
  THEN [points |-> pts, isClosed |-> closed,
        calibrationPoints |-> Append(calPts, target),
        showCalibrationModal |-> modal \/ Len(calPts) + 1 = 2]
  ELSE IF closed
  THEN [points |-> pts, isClosed |-> closed,
        calibrationPoints |-> calPts, showCalibrationModal |-> modal]
  ELSE LET closes ==
             /\ Len(pts) >= 3
             /\ calculatePixelDistance(target, pts[1]) < CloseRadius
       IN  [points |-> IF closes THEN pts ELSE << target >> \o pts,
            isClosed |-> closes,
            calibrationPoints |-> calPts, showCalibrationModal |-> modal]

\* Variant of CaptureOutcome: the polygon closes from four vertices on.
CaptureOutcomeFourToClose(pts, closed, cal, calPts, modal, target) ==
  IF cal
  THEN [points |-> pts, isClosed |-> closed,
        calibrationPoints |-> Append(calPts, target),
        showCalibrationModal |-> modal \/ Len(calPts) + 1 = 2]
  ELSE IF closed
  THEN [points |-> pts, isClosed |-> closed,
        calibrationPoints |-> calPts, showCalibrationModal |-> modal]
  ELSE LET closes ==
             /\ Len(pts) >= 4
             /\ calculatePixelDistance(target, pts[1]) < CloseRadius
       IN  [points |-> IF closes THEN pts ELSE Append(pts, target),
            isClosed |-> closes,
            calibrationPoints |-> calPts, showCalibrationModal |-> modal]

\* handleCapturePoint with the reticle at target: the fields it may change.
\* The updater of line 769 and the check of line 783 test the same condition
\* on the same vertex list.
CaptureOutcome(pts, closed, cal, calPts, modal, target) ==
  IF cal
  THEN [points |-> pts, isClosed |-> closed,
        calibrationPoints |-> Append(calPts, target),
        showCalibrationModal |-> modal \/ Len(calPts) + 1 = 2]
  ELSE IF closed
  THEN [points |-> pts, isClosed |-> closed,
        calibrationPoints |-> calPts, showCalibrationModal |-> modal]
  ELSE LET closes ==
             /\ Len(pts) >= 3
             /\ calculatePixelDistance(target, pts[1]) < CloseRadius
       IN  [points |-> IF closes THEN pts ELSE Append(pts, target),
            isClosed |-> closes,
            calibrationPoints |-> calPts, showCalibrationModal |-> modal]

\* handleCapturePoint in the current state, reticle at the container's centre.
CaptureNow ==
  CaptureOutcome(points, isClosed, isCalibrating, calibrationPoints,
                 showCalibrationModal, Center(viewport))

\* Variant of UndoOutcome: reopening also drops the last vertex.
UndoOutcomeDropsOnReopen(pts, closed) ==
  [points |-> SubSeq(pts, 1, Len(pts) - 1), isClosed |-> FALSE]

\* Variant of UndoOutcome: the first vertex is removed instead of the last.
UndoOutcomeDropsFirst(pts, closed) ==
  IF closed
  THEN [points |-> pts, isClosed |-> FALSE]
  ELSE [points |-> SubSeq(pts, 2, Len(pts)), isClosed |-> closed]

\* handleUndo: the fields it may change.
UndoOutcome(pts, closed) ==
  IF closed
  THEN [points |-> pts, isClosed |-> FALSE]
  ELSE [points |-> SubSeq(pts, 1, Len(pts) - 1), isClosed |-> closed]

\* Variant of CalibrationValid: a distance of zero feet is accepted.
CalibrationValidZeroFeet(distPx, distFt) ==
  ~distFt.nan /\ distFt.half >= 0 /\ distPx > 0

\* Variant of CalibrationValid: coinciding reference points are accepted.
CalibrationValidAnyPixels(distPx, distFt) ==
  ~distFt.nan /\ distFt.half > 0

\* Variant of ScaleOf: the ratio is taken the other way round.
ScaleOfInverted(distPx, distFt) == Ratio(distFt.half, 2 * distPx)

\* handleFinishCalibration: the test of line 794 and the scale of line 795.
CalibrationValid(distPx, distFt) ==
  ~distFt.nan /\ distFt.half > 0 /\ distPx > 0

ScaleOf(distPx, distFt) == Ratio(2 * distPx, distFt.half)

\* Variant of Active: the detector keeps running on a closed polygon.
ActiveWhileClosed(m, auto, cal, closed) == m /\ auto /\ ~cal

\* The auto-scan effect (lines 638-733) after a render: whether the listeners
\* and the interval are registered, and the progress it leaves.
Active(m, auto, cal, closed) == m /\ auto /\ ~cal /\ ~closed

EffectProgress(p, m, auto, cal, closed) ==
  IF m /\ ~Active(m, auto, cal, closed) THEN 0 ELSE p

\* ------------------------------------------------------------ initial state
\* The component just mounted: state hooks at their defaults, the mount
\* effect has measured the container and asked for the camera, the auto-scan
\* effect has registered its listeners and its interval.
Mounted ==
  /\ points = << >>
  /\ isClosed = FALSE
  /\ isCalibrating = FALSE
  /\ calibrationPoints = << >>
  /\ pixelsPerFoot = Ratio(DefaultPixelsPerFoot, 1)
  /\ showCalibrationModal = FALSE
  /\ calibrationDistanceInput = Feet2(DefaultDistanceInput)
  /\ isAutoScan = TRUE
  /\ scanProgress = 0
  /\ sinceMotion = 0
  /\ scanCooldownRef = FALSE
  /\ timeouts = {}
  /\ intervalOn = TRUE
  /\ mounted = TRUE
  /\ camera = "pending"
  /\ completeCalls = 0
  /\ cancelCalls = 0
  /\ result = "none"
  /\ threw = FALSE
  /\ rooms = << >>

\* The clock periods a history counts at most: the hold of StableAfter, the
\* FullProgress / FillSpeed periods of the ramp, and one more.
StillCap ==
  StableAfter \div TickPeriod + (FullProgress + FillSpeed - 1) \div FillSpeed + 1

\* lastOp is the log of the last operation; "off" switches the log off.
\* trace is its history: the magnitude of the sample the operation delivered
\* (0 when it delivered none), and the number of clock periods since the last
\* sample above 0.8 or pointer movement.
Record(op, sample, still) ==
  /\ lastOp' = IF lastOp = "off" THEN lastOp ELSE op
  /\ trace' = IF lastOp = "off" THEN trace
              ELSE [sample |-> sample, still |-> still]

Log(op) == Record(op, 0, trace.still)

NoTrace == [sample |-> 0, still |-> 0]

Init ==
  /\ Mounted
  /\ viewport \in TwoViewports
  /\ lastOp = "off"
  /\ trace = NoTrace

InitTaps ==
  /\ Mounted
  /\ viewport \in Viewports
  /\ lastOp = "mount"
  /\ trace = NoTrace

\* What every render leaves behind: the auto-scan effect applied to the
\* values the handler produced.
Rendered(p, auto, cal, closed) ==
  /\ scanProgress' = EffectProgress(p, mounted, auto, cal, closed)
  /\ intervalOn' = Active(mounted, auto, cal, closed)

\* The dialog of line 1122 covers the whole container while it is shown.
Reachable == mounted /\ ~showCalibrationModal

\* ----------------------------------------------------------------- actions
\* Capture button (line 1085): handleCapturePoint at the viewport centre.
CapturePoint(cap) ==
  /\ Reachable
  /\ ~isClosed
  /\ LET out == CaptureNow
     IN  /\ Len(out.points) <= cap
         /\ points' = out.points
         /\ isClosed' = out.isClosed
         /\ calibrationPoints' = out.calibrationPoints
         /\ showCalibrationModal' = out.showCalibrationModal
         /\ Rendered(scanProgress, isAutoScan, isCalibrating, out.isClosed)
         /\ Log(IF ~out.isClosed THEN "capture"
                ELSE IF lastOp = "reopen" THEN "reclose" ELSE "close")
  /\ UNCHANGED << isCalibrating, pixelsPerFoot, calibrationDistanceInput,
                  isAutoScan, sinceMotion, scanCooldownRef, timeouts, sessVars >>

\* Undo button (line 1065), rendered while points.length > 0.
Undo ==
  /\ Reachable
  /\ Len(points) > 0
  /\ LET out == UndoOutcome(points, isClosed)
     IN  /\ points' = out.points
         /\ isClosed' = out.isClosed
         /\ Rendered(scanProgress, isAutoScan, isCalibrating, out.isClosed)
         /\ Log(IF isClosed THEN "reopen" ELSE "undo")
  /\ UNCHANGED << calVars, isAutoScan, sinceMotion, scanCooldownRef, timeouts,
                  sessVars >>

\* Variant of ToggleCalibration: the Scale button is rendered with vertices
\* on screen too.
ToggleCalibrationAnytime ==
  /\ Reachable
  /\ isCalibrating' = ~isCalibrating
  /\ Rendered(scanProgress, isAutoScan, ~isCalibrating, isClosed)
  /\ Log("toggleCalibration")
  /\ UNCHANGED << polyVars, calibrationPoints, pixelsPerFoot,
                  showCalibrationModal, calibrationDistanceInput, isAutoScan,
                  sinceMotion, scanCooldownRef, timeouts, sessVars >>

\* Scale button (line 1072), rendered while points.length = 0.
ToggleCalibration ==
  /\ Reachable
  /\ Len(points) = 0
  /\ isCalibrating' = ~isCalibrating
  /\ Rendered(scanProgress, isAutoScan, ~isCalibrating, isClosed)
  /\ Log("toggleCalibration")
  /\ UNCHANGED << polyVars, calibrationPoints, pixelsPerFoot,
                  showCalibrationModal, calibrationDistanceInput, isAutoScan,
                  sinceMotion, scanCooldownRef, timeouts, sessVars >>

\* Auto-detect toggle (line 1031), rendered while the polygon is open.
ToggleAutoScan ==
  /\ Reachable
  /\ ~isClosed
  /\ isAutoScan' = ~isAutoScan
  /\ Rendered(scanProgress, ~isAutoScan, isCalibrating, isClosed)
  /\ Log("toggleAutoScan")
  /\ UNCHANGED << polyVars, calVars, sinceMotion, scanCooldownRef, timeouts,
                  sessVars >>

\* The dialog's input and its - and + buttons (lines 1129-1134).
TypeDistance(v) ==
  /\ mounted
  /\ showCalibrationModal
  /\ v # calibrationDistanceInput
  /\ calibrationDistanceInput' = v
  /\ Log("typeDistance")
  /\ UNCHANGED << polyVars, isCalibrating, calibrationPoints, pixelsPerFoot,
                  showCalibrationModal, scanVars, sessVars >>

StepDistance(delta) ==
  /\ mounted
  /\ showCalibrationModal
  /\ ~calibrationDistanceInput.nan
  /\ calibrationDistanceInput.half + delta \in (0 - InputBelow)..InputHi
  /\ calibrationDistanceInput' = Feet2(calibrationDistanceInput.half + delta)
  /\ Log("stepDistance")
  /\ UNCHANGED << polyVars, isCalibrating, calibrationPoints, pixelsPerFoot,
                  showCalibrationModal, scanVars, sessVars >>

\* "Apply Scale & Scan" (line 1136): handleFinishCalibration.
FinishCalibration ==
  /\ mounted
  /\ showCalibrationModal
  /\ Log("finishCalibration")
  /\ IF Len(calibrationPoints) < 2
     THEN \* calibrationPoints[1] is undefined: reading p2.x throws
          /\ threw' = TRUE
          /\ UNCHANGED << polyVars, calVars, scanVars, viewport, mounted,
                          camera, completeCalls, cancelCalls, result,
                          rooms >>
     ELSE LET distPx == calculatePixelDistance(calibrationPoints[1],
                                               calibrationPoints[2])
              distFt == calibrationDistanceInput
          IN  IF CalibrationValid(distPx, distFt)
              THEN /\ pixelsPerFoot' = ScaleOf(distPx, distFt)
                   /\ isCalibrating' = FALSE
                   /\ calibrationPoints' = << >>
                   /\ showCalibrationModal' = FALSE
                   /\ points' = << >>
                   /\ isClosed' = FALSE
                   /\ Rendered(scanProgress, isAutoScan, FALSE, FALSE)
                   /\ UNCHANGED << calibrationDistanceInput, isAutoScan,
                                   sinceMotion, scanCooldownRef, timeouts,
                                   sessVars >>
              ELSE UNCHANGED << polyVars, calVars, scanVars, sessVars >>

\* window resize (line 585): the container, and with it the reticle, moves.
Resize(v) ==
  /\ mounted
  /\ v # viewport
  /\ viewport' = v
  /\ Log("resize")
  /\ UNCHANGED << polyVars, calVars, scanVars, mounted, camera, completeCalls,
                  cancelCalls, result, threw, rooms >>

\* Variant of Motion: a sample of exactly 0.8 resets the detector too.
MotionInclusive(magnitude) ==
  /\ intervalOn
  /\ IF magnitude >= MotionThreshold
     THEN sinceMotion' = 0 /\ scanProgress' = 0
     ELSE UNCHANGED << sinceMotion, scanProgress >>
  /\ Record("motion", magnitude, IF magnitude > 8 THEN 0 ELSE trace.still)
  /\ UNCHANGED << polyVars, calVars, isAutoScan, scanCooldownRef, timeouts,
                  intervalOn, sessVars >>

\* devicemotion listener (line 645), registered while the detector is active.
Motion(magnitude) ==
  /\ intervalOn
  /\ IF magnitude > MotionThreshold
     THEN sinceMotion' = 0 /\ scanProgress' = 0
     ELSE UNCHANGED << sinceMotion, scanProgress >>
  /\ Record("motion", magnitude, IF magnitude > 8 THEN 0 ELSE trace.still)
  /\ UNCHANGED << polyVars, calVars, isAutoScan, scanCooldownRef, timeouts,
                  intervalOn, sessVars >>

\* mousemove listener (line 661).
MouseMove ==
  /\ intervalOn
  /\ sinceMotion' = 0
  /\ scanProgress' = 0
  /\ Record("mouseMove", 0, 0)
  /\ UNCHANGED << polyVars, calVars, isAutoScan, scanCooldownRef, timeouts,
                  intervalOn, sessVars >>

\* ---------------------------------------------------------------- timers
\* The detector's fields as one record, for the two timer callbacks.
Detector ==
  [progress |-> scanProgress, since |-> sinceMotion,
   cooldown |-> scanCooldownRef, timeouts |-> timeouts, fire |-> FALSE]

\* TickPeriod milliseconds pass.
Elapse(d) ==
  [d EXCEPT !.since = Min(@ + TickPeriod, StableAfter + TickPeriod),
            !.timeouts = { t - TickPeriod : t \in @ }]

\* Variant of CooldownExpiry: the timeout resets the ring and the timestamp
\* but leaves the cooldown flag set.
CooldownExpiryKeepsFlag(d) ==
  IF \E t \in d.timeouts : t <= 0
  THEN [d EXCEPT !.progress = IF mounted THEN 0 ELSE @,
                 !.since = 0,
                 !.timeouts = { t \in @ : t > 0 }]
  ELSE d

\* The setTimeout callback of line 713, when one is due.  setScanProgress on
\* an unmounted component does nothing; the two refs are written anyway.
CooldownExpiry(d) ==
  IF \E t \in d.timeouts : t <= 0
  THEN [d EXCEPT !.cooldown = FALSE,
                 !.progress = IF mounted THEN 0 ELSE @,
                 !.since = 0,
                 !.timeouts = { t \in @ : t > 0 }]
  ELSE d

\* Variant of ProgressInterval: the ring fills from 400 ms of stillness on.
ProgressIntervalEarly(d) ==
  IF ~intervalOn \/ d.cooldown THEN d
  ELSE IF d.since >= StableAfter
  THEN IF d.progress + FillSpeed >= FullProgress
       THEN [d EXCEPT !.fire = TRUE,
                      !.cooldown = TRUE,
                      !.timeouts = @ \cup { CooldownMs },
                      !.progress = FullProgress]
       ELSE [d EXCEPT !.progress = @ + FillSpeed]
  ELSE d

\* Variant of ProgressInterval: the cooldown flag is not consulted.
ProgressIntervalNoCooldown(d) ==
  IF ~intervalOn THEN d
  ELSE IF d.since > StableAfter
  THEN IF d.progress + FillSpeed >= FullProgress
       THEN [d EXCEPT !.fire = TRUE,
                      !.cooldown = TRUE,
                      !.timeouts = @ \cup { CooldownMs },
                      !.progress = FullProgress]
       ELSE [d EXCEPT !.progress = @ + FillSpeed]
  ELSE d

\* Variant of ProgressInterval: the last increment is not clamped.
ProgressIntervalUnclamped(d) ==
  IF ~intervalOn \/ d.cooldown THEN d
  ELSE IF d.since > StableAfter
  THEN IF d.progress + FillSpeed >= FullProgress
       THEN [d EXCEPT !.fire = TRUE,
                      !.cooldown = TRUE,
                      !.timeouts = @ \cup { CooldownMs },
                      !.progress = @ + FillSpeed]
       ELSE [d EXCEPT !.progress = @ + FillSpeed]
  ELSE d

\* The setInterval callback of line 696, while the interval is registered.
ProgressInterval(d) ==
  IF ~intervalOn \/ d.cooldown THEN d
  ELSE IF d.since > StableAfter
  THEN IF d.progress + FillSpeed >= FullProgress
       THEN [d EXCEPT !.fire = TRUE,
                      !.cooldown = TRUE,
                      !.timeouts = @ \cup { CooldownMs },
                      !.progress = FullProgress]
       ELSE [d EXCEPT !.progress = @ + FillSpeed]
  ELSE d

\* Variant of Tick: the firing interval captures at the initial target (0, 0)
\* in place of the container's centre.
TickInitialTarget(cap) ==
  /\ mounted \/ timeouts # {}
  /\ \E timeoutFirst \in BOOLEAN :
       LET d == IF timeoutFirst
                THEN ProgressInterval(CooldownExpiry(Elapse(Detector)))
                ELSE CooldownExpiry(ProgressInterval(Elapse(Detector)))
           out == IF d.fire
                  THEN CaptureOutcome(points, isClosed, isCalibrating,
                                      calibrationPoints, showCalibrationModal,
                                      [x |-> 0, y |-> 0])
                  ELSE [points |-> points, isClosed |-> isClosed,
                        calibrationPoints |-> calibrationPoints,
                        showCalibrationModal |-> showCalibrationModal]
       IN  /\ Len(out.points) <= cap
           /\ points' = out.points
           /\ isClosed' = out.isClosed
           /\ calibrationPoints' = out.calibrationPoints
           /\ showCalibrationModal' = out.showCalibrationModal
           /\ sinceMotion' = d.since
           /\ scanCooldownRef' = d.cooldown
           /\ timeouts' = d.timeouts
           /\ scanProgress' =
                IF mounted
                THEN EffectProgress(d.progress, mounted, isAutoScan,
                                    isCalibrating, out.isClosed)
                ELSE d.progress
           /\ intervalOn' = Active(mounted, isAutoScan, isCalibrating, out.isClosed)
           /\ Record(IF d.fire THEN "autoCapture"
                     ELSE IF d.timeouts # { t - TickPeriod : t \in timeouts }
                     THEN "cooldownExpiry" ELSE "tick",
                     0, Min(trace.still + 1, StillCap))
  /\ UNCHANGED << isCalibrating, pixelsPerFoot, calibrationDistanceInput,
                  isAutoScan, sessVars >>

\* One period of the clock: the timers that are due run, in either order.
Tick(cap) ==
  /\ mounted \/ timeouts # {}
  /\ \E timeoutFirst \in BOOLEAN :
       LET d == IF timeoutFirst
                THEN ProgressInterval(CooldownExpiry(Elapse(Detector)))
                ELSE CooldownExpiry(ProgressInterval(Elapse(Detector)))
           out == IF d.fire
                  THEN CaptureNow
                  ELSE [points |-> points, isClosed |-> isClosed,
                        calibrationPoints |-> calibrationPoints,
                        showCalibrationModal |-> showCalibrationModal]
       IN  /\ Len(out.points) <= cap
           /\ points' = out.points
           /\ isClosed' = out.isClosed
           /\ calibrationPoints' = out.calibrationPoints
           /\ showCalibrationModal' = out.showCalibrationModal
           /\ sinceMotion' = d.since
           /\ scanCooldownRef' = d.cooldown
           /\ timeouts' = d.timeouts
           /\ scanProgress' =
                IF mounted
                THEN EffectProgress(d.progress, mounted, isAutoScan,
                                    isCalibrating, out.isClosed)
                ELSE d.progress
           /\ intervalOn' = Active(mounted, isAutoScan, isCalibrating, out.isClosed)
           /\ Record(IF d.fire THEN "autoCapture"
                     ELSE IF d.timeouts # { t - TickPeriod : t \in timeouts }
                     THEN "cooldownExpiry" ELSE "tick",
                     0, Min(trace.still + 1, StillCap))
  /\ UNCHANGED << isCalibrating, pixelsPerFoot, calibrationDistanceInput,
                  isAutoScan, sessVars >>

\* ------------------------------------------------------- end of the session
\* The parent stops rendering the component (setShowAR(false), lines 139 and
\* 265): React discards the hook state and runs every effect cleanup, so the
\* listeners and the interval are gone.  What survives is what the pending
\* setTimeout closures still hold: the two refs.
Unmount ==
  /\ mounted' = FALSE
  /\ points' = << >>
  /\ isClosed' = FALSE
  /\ isCalibrating' = FALSE
  /\ calibrationPoints' = << >>
  /\ pixelsPerFoot' = Ratio(DefaultPixelsPerFoot, 1)
  /\ showCalibrationModal' = FALSE
  /\ calibrationDistanceInput' = Feet2(DefaultDistanceInput)
  /\ isAutoScan' = TRUE
  /\ scanProgress' = 0
  /\ intervalOn' = FALSE
  /\ UNCHANGED << sinceMotion, scanCooldownRef, timeouts, viewport, threw,
                  rooms >>

\* Done button (line 1100), rendered in place of Capture while isClosed.
\* The parent hides the component: every effect cleanup runs.
CompleteMeasurement ==
  /\ Reachable
  /\ isClosed
  /\ completeCalls' = completeCalls + 1
  /\ result' = Report(points, isClosed, pixelsPerFoot, viewport)
  /\ Unmount
  /\ Log("complete")
  /\ UNCHANGED << camera, cancelCalls >>

\* Close button (line 1018).
Cancel ==
  /\ Reachable
  /\ cancelCalls' = cancelCalls + 1
  /\ Unmount
  /\ Log("cancel")
  /\ UNCHANGED << camera, completeCalls, result >>

\* setupCamera (line 596): getUserMedia resolves ...
CameraGranted ==
  /\ camera = "pending"
  /\ camera' = "granted"
  /\ Log("cameraGranted")
  /\ UNCHANGED << polyVars, calVars, scanVars, viewport, mounted,
                  completeCalls, cancelCalls, result, threw, rooms >>

\* ... or both requests are rejected: alert, then onCancel() (line 623),
\* whether or not the component is still mounted.
CameraFailed ==
  /\ camera = "pending"
  /\ camera' = "failed"
  /\ cancelCalls' = cancelCalls + 1
  /\ Unmount
  /\ Log("cameraFailed")
  /\ UNCHANGED << completeCalls, result >>

\* The session with its clock running.  The distance field is either left at
\* its default or set to zero here, and the camera request stays pending; the
\* other values of the field and the two answers of the camera are exercised
\* in NextTaps, since no timer reads either.
Next ==
  \/ CapturePoint(MaxVertsClock)
  \/ Undo
  \/ ToggleCalibration
  \/ ToggleAutoScan
  \/ TypeDistance(Feet2(0))
  \/ FinishCalibration
  \/ \E v \in TwoViewports : Resize(v)
  \/ \E m \in Magnitudes : Motion(m)
  \/ MouseMove
  \/ Tick(MaxVertsClock)
  \/ CompleteMeasurement
  \/ Cancel

Spec == Init /\ [][Next]_vars

\* The session driven by the user alone, faster than the clock: no timer
\* runs, every container size occurs, and the operations are logged.
NextTaps ==
  \/ CapturePoint(MaxVerts)
  \/ Undo
  \/ ToggleCalibration
  \/ ToggleAutoScan
  \/ \E v \in TypedInputs : TypeDistance(v)
  \/ \E delta \in { -1, 1 } : StepDistance(delta)
  \/ FinishCalibration
  \/ \E v \in Viewports : Resize(v)
  \/ CompleteMeasurement
  \/ Cancel
  \/ CameraGranted
  \/ CameraFailed

SpecTaps == InitTaps /\ [][NextTaps]_vars

\* The stability detector under the clock, with its history kept: one
\* container size (every capture lands on the same pixel, so the fourth
\* capture closes), the user toggling, capturing, undoing, completing and
\* cancelling.
InitScan ==
  /\ Mounted
  /\ viewport = [w |-> 200, h |-> 200]
  /\ lastOp = "mount"
  /\ trace = NoTrace

NextScan ==
  \/ CapturePoint(MaxVerts)
  \/ Undo
  \/ ToggleCalibration
  \/ ToggleAutoScan
  \/ \E m \in Magnitudes : Motion(m)
  \/ MouseMove
  \/ Tick(MaxVerts)
  \/ CompleteMeasurement
  \/ Cancel

SpecScan == InitScan /\ [][NextScan]_vars

\* The detector with time passing: setInterval and setTimeout callbacks that
\* are due do run, so a period of the clock that changes something cannot be
\* put off forever.
InitScanFair ==
  /\ Mounted
  /\ viewport = [w |-> 200, h |-> 200]
  /\ lastOp = "off"
  /\ trace = NoTrace

SpecScanFair ==
  InitScanFair /\ [][NextScan]_vars /\ WF_vars(Tick(MaxVerts))

\* A devicemotion sample dispatched while the effect has returned at its
\* guard (line 640) or been cleaned up: no listener is registered, so nothing
\* of the component changes.  Only the history notes that it arrived.
MotionUnheard(magnitude) ==
  /\ mounted
  /\ ~intervalOn
  /\ Record("motionUnheard", magnitude,
            IF magnitude > MotionThreshold THEN 0 ELSE trace.still)
  /\ UNCHANGED << polyVars, calVars, scanVars, sessVars >>

\* The detector with every sample of the sensor in the history, heard or not.
NextSamples ==
  \/ NextScan
  \/ \E m \in Magnitudes : MotionUnheard(m)

SpecSamples == InitScan /\ [][NextSamples]_vars

\* The statistics as a function of a closed vertex list: the list is drawn
\* from the grid and measured; it is then listed from another vertex or in
\* the opposite direction, and measured again.
InitGeometry ==
  /\ points \in UNION { [1..n -> GridPoints] : n \in 3..MaxPoly }
  /\ isClosed = TRUE
  /\ result = StatsPxNumber(points)
  /\ isCalibrating = FALSE
  /\ calibrationPoints = << >>
  /\ pixelsPerFoot = Ratio(DefaultPixelsPerFoot, 1)
  /\ showCalibrationModal = FALSE
  /\ calibrationDistanceInput = Feet2(DefaultDistanceInput)
  /\ isAutoScan = TRUE
  /\ scanProgress = 0
  /\ sinceMotion = 0
  /\ scanCooldownRef = FALSE
  /\ timeouts = {}
  /\ intervalOn = FALSE
  /\ viewport = [w |-> 200, h |-> 200]
  /\ mounted = TRUE
  /\ camera = "granted"
  /\ completeCalls = 0
  /\ cancelCalls = 0
  /\ threw = FALSE
  /\ rooms = << >>
  /\ lastOp = "measure"
  /\ trace = NoTrace

RotateVertices ==
  /\ points' = [i \in 1..Len(points) |-> points[(i % Len(points)) + 1]]
  /\ Log("rotate")
  /\ UNCHANGED << isClosed, calVars, scanVars, sessVars >>

ReverseVertices ==
  /\ points' = [i \in 1..Len(points) |-> points[Len(points) + 1 - i]]
  /\ Log("reverse")
  /\ UNCHANGED << isClosed, calVars, scanVars, sessVars >>

Measure ==
  /\ result' = StatsPxNumber(points)
  /\ Log("measure")
  /\ UNCHANGED << polyVars, calVars, scanVars, viewport, mounted, camera,
                  completeCalls, cancelCalls, threw, rooms >>

NextGeometry ==
  \/ RotateVertices
  \/ ReverseVertices
  \/ Measure

SpecGeometry == InitGeometry /\ [][NextGeometry]_vars

\* The rooms of the measurements handed over: whole sides of 1 to MaxSide
\* feet and, next to each, the SideSteps following Numbers.
Sides ==
  { k * Unit : k \in 1..MaxSide }
  \cup { k * Unit + j * Ulp(k * Unit) : k \in 1..MaxSide, j \in 1..SideSteps }

WholeSides == { k * Unit : k \in 1..MaxSide }

\* Area and perimeter of the w by l rectangle, as Numbers.
RectangleReport(w, l) ==
  [area |-> NumberOf(w * l, Unit),
   perimeter |-> RoundNumber(2 * RoundNumber(w + l))]

\* Feet as a Number.
Feet(n) == n * Unit

\* What onComplete can hand to handleARComplete: the rectangles, three
\* reports that belong to no such rectangle, and the report of a degenerate
\* polygon.
Reports ==
  { RectangleReport(w, l) : w \in Sides, l \in Sides }
  \cup { [area |-> Feet(100), perimeter |-> Feet(40)],
         [area |-> Feet(50), perimeter |-> Feet(60)],
         [area |-> Feet(100), perimeter |-> Feet(30)],
         [area |-> 0, perimeter |-> 0] }

\* The manual form's fields as parseFloat(...) || 0 reads them: empty, or 1.
FormEntries == { 0, Unit }

\* The estimator right after onComplete(area, perimeter): the measurement
\* component is gone and the report is in hand.
InitBackSolve ==
  /\ result \in Reports
  /\ rooms = << >>
  /\ points = << >>
  /\ isClosed = FALSE
  /\ isCalibrating = FALSE
  /\ calibrationPoints = << >>
  /\ pixelsPerFoot = Ratio(DefaultPixelsPerFoot, 1)
  /\ showCalibrationModal = FALSE
  /\ calibrationDistanceInput = Feet2(DefaultDistanceInput)
  /\ isAutoScan = TRUE
  /\ scanProgress = 0
  /\ sinceMotion = 0
  /\ scanCooldownRef = FALSE
  /\ timeouts = {}
  /\ intervalOn = FALSE
  /\ viewport = [w |-> 200, h |-> 200]
  /\ mounted = FALSE
  /\ camera = "granted"
  /\ completeCalls = 1
  /\ cancelCalls = 0
  /\ threw = FALSE
  /\ lastOp = "complete"
  /\ trace = NoTrace

\* handleARComplete (line 137): addRoom(area, perimeter), whatever the manual
\* form holds at that moment.
handleARComplete ==
  /\ Len(rooms) < MaxRooms
  /\ \E width, length \in FormEntries :
       rooms' = addRoom(rooms, result.area, result.perimeter, width, length)
  /\ Log("addRoom")
  /\ UNCHANGED << polyVars, calVars, scanVars, viewport, mounted, camera,
                  completeCalls, cancelCalls, result, threw >>

NextBackSolve == handleARComplete

SpecBackSolve == InitBackSolve /\ [][NextBackSolve]_vars

TypeOK ==
  /\ Len(points) <= MaxVerts + 1
  /\ scanProgress \in 0..FullProgress
  /\ sinceMotion \in 0..(StableAfter + TickPeriod)

\* =================================================================== claims
\* Vocabulary of the statements, written without the operators of the model.
DistSq(p, q) == (p.x - q.x) * (p.x - q.x) + (p.y - q.y) * (p.y - q.y)

\* Twice the signed area of the cycle pts, by the trapezoid formula.
TwiceArea(pts) ==
  LET n == Len(pts)
      term[i \in 0..n] ==
        IF i = 0 THEN 0
        ELSE LET q == pts[IF i = n THEN 1 ELSE i + 1]
             IN  term[i - 1] + (pts[i].x - q.x) * (pts[i].y + q.y)
  IN  Abs(term[n])

\* Length of the cycle pts, last vertex joined to the first.
CycleLength(pts) ==
  LET n == Len(pts)
      side(i) == LET d2 == DistSq(pts[i], pts[IF i = n THEN 1 ELSE i + 1])
                 IN  CHOOSE r \in 0..d2 : r * r = d2
      sum[i \in 0..n] == IF i = 0 THEN 0 ELSE sum[i - 1] + side(i)
  IN  sum[n]

\* r hundredths is num/den rounded to two decimals.
IsRounded(r, num, den) == 2 * Abs(100 * num - r * den) <= den

CaptureLogs == { "capture", "close", "reclose" }

\* ---- C1
\* C1: in every reachable state of a session, whatever captures, undos,
\* calibration toggles and finishes, motion samples, ticks and cooldown
\* expiries led to it, a closed polygon has at least three vertices.
C1_ClosedHasThreeVertices == isClosed => Len(points) >= 3

\* A polygon closed by the detector's own capture, its cooldown still running.
C1_Witness == isClosed /\ Len(points) >= 3 /\ scanCooldownRef /\ timeouts # {}

\* ---- C2
\* C2: a capture in Measuring-Open closes the polygon exactly when there are
\* at least three vertices and the target is strictly less than 30 pixels
\* from the first one; then the vertices stay as they are; otherwise the
\* target becomes the last vertex and the polygon stays open.
C2_CaptureClosesIffNear ==
  [][(lastOp' \in CaptureLogs /\ ~isCalibrating /\ ~isClosed) =>
       LET target == Center(viewport)
           near == Len(points) >= 3
                   /\ DistSq(target, points[1]) < CloseRadius * CloseRadius
       IN  /\ isClosed' <=> near
           /\ near => points' = points
           /\ ~near => points' = Append(points, target)]_vars

\* A capture has just closed a triangle from a target beside its first vertex.
C2_Witness ==
  /\ lastOp = "close"
  /\ isClosed
  /\ Len(points) = 3
  /\ Center(viewport) # points[1]

\* ---- C3
\* C3: a capture changes the polygon only in Measuring-Open: while
\* calibrating it changes nothing but the reference points (and the dialog
\* they open), and on a closed polygon the handler changes nothing at all.
C3_CaptureFrame ==
  /\ [][(lastOp' \in CaptureLogs /\ isCalibrating) =>
          /\ UNCHANGED << polyVars, isCalibrating, pixelsPerFoot,
                          calibrationDistanceInput, scanVars, sessVars >>
          /\ calibrationPoints' = Append(calibrationPoints, Center(viewport))]_vars
  /\ [](isClosed =>
          \A v \in Viewports :
            CaptureOutcome(points, isClosed, isCalibrating, calibrationPoints,
                           showCalibrationModal, Center(v))
              = [points |-> points, isClosed |-> isClosed,
                 calibrationPoints |-> calibrationPoints,
                 showCalibrationModal |-> showCalibrationModal])

\* A first reference point has just been captured; there is no vertex.
C3_Witness ==
  /\ lastOp = "capture"
  /\ isCalibrating
  /\ Len(calibrationPoints) = 1
  /\ points = << >>

\* ---- C4
\* C4: undo on a closed polygon reopens it and keeps every vertex; undo on an
\* open polygon removes the last vertex and keeps the earlier ones; undo on
\* an empty open sequence changes nothing.
C4_Undo ==
  /\ [][lastOp' \in { "undo", "reopen" } =>
          IF isClosed
          THEN ~isClosed' /\ points' = points
          ELSE /\ ~isClosed'
               /\ Len(points') = Len(points) - 1
               /\ \A i \in 1..Len(points') : points'[i] = points[i]]_vars
  /\ []((points = << >> /\ ~isClosed) =>
          UndoOutcome(points, isClosed) = [points |-> << >>, isClosed |-> FALSE])

\* Undo has just reopened a closed polygon; its vertices are all there.
C4_Witness == lastOp = "reopen" /\ ~isClosed /\ Len(points) >= 3

\* ---- C5
\* C5: from any closed polygon, undo followed by a capture that closes it
\* again gives the same vertex sequence, hence the same reported area and
\* perimeter, wherever the reticle is at the second close.
C5_RoundTrip ==
  isClosed =>
    LET u == UndoOutcome(points, isClosed)
    IN  /\ ~u.isClosed
        /\ \A v \in Viewports :
             LET c == CaptureOutcome(u.points, u.isClosed, isCalibrating,
                                     calibrationPoints, showCalibrationModal,
                                     Center(v))
             IN  c.isClosed =>
                   /\ c.points = points
                   /\ Report(c.points, c.isClosed, pixelsPerFoot, v)
                        = Report(points, isClosed, pixelsPerFoot, viewport)

\* A polygon of non-zero area closed, reopened by undo and closed again.
C5_Witness == lastOp = "reclose" /\ isClosed /\ TwiceArea(points) > 0

\* ---- C6
\* C6: onComplete is invoked only on a closed polygon, and while the polygon
\* is open there is no way to complete, so the attempt leaves the session as
\* it is; the pair handed to onComplete is the area and the perimeter of the
\* cycle of recorded vertices, without the reticle, divided by scale squared
\* and by scale, each rounded to two decimals.
C6_CompleteOnlyClosed ==
  /\ [](~isClosed => ~ENABLED CompleteMeasurement)
  /\ [][completeCalls' # completeCalls =>
          /\ isClosed
          /\ completeCalls' = completeCalls + 1
          /\ IsRounded(result'.area,
                       TwiceArea(points) * pixelsPerFoot.d * pixelsPerFoot.d,
                       2 * pixelsPerFoot.n * pixelsPerFoot.n)
          /\ IsRounded(result'.perimeter,
                       CycleLength(points) * pixelsPerFoot.d,
                       pixelsPerFoot.n)]_vars

\* A measurement of non-zero area and perimeter has just been completed.
C6_Witness ==
  /\ lastOp = "complete"
  /\ completeCalls = 1
  /\ result.area > 0
  /\ result.perimeter > 0

\* ---- C7
\* C7: a session invokes exactly one terminal callback: never two, never
\* both kinds, and one of them once the session has ended.
C7_OneTerminalCallback ==
  /\ completeCalls + cancelCalls <= 1
  /\ ~mounted => completeCalls + cancelCalls = 1

\* ---- C8
\* C8: once the session has ended nothing is left that could run: no
\* cooldown timeout is pending and neither the interval nor a listener is
\* registered.
C8_NothingPendingAfterTeardown ==
  ~mounted => (timeouts = {} /\ ~intervalOn)

\* ---- C9
\* C9: finishing a calibration with a positive distance and two reference
\* points d > 0 pixels apart sets scale = d / realDistance, leaves
\* calibration mode, clears the reference points and leaves the polygon
\* empty and open.
C9_FinishCalibration ==
  [][(/\ lastOp' = "finishCalibration"
      /\ Len(calibrationPoints) >= 2
      /\ ~calibrationDistanceInput.nan
      /\ calibrationDistanceInput.half > 0
      /\ DistSq(calibrationPoints[1], calibrationPoints[2]) > 0) =>
       LET d2 == DistSq(calibrationPoints[1], calibrationPoints[2])
           d == CHOOSE r \in 0..d2 : r * r = d2
       IN  \* scale' = d / (half / 2)
           /\ pixelsPerFoot'.n * calibrationDistanceInput.half
                = 2 * d * pixelsPerFoot'.d
           /\ ~isCalibrating'
           /\ ~showCalibrationModal'
           /\ calibrationPoints' = << >>
           /\ points' = << >>
           /\ ~isClosed']_vars

\* Reference points 30 pixels apart and 3 feet entered: the scale is 10.
C9_Witness ==
  /\ lastOp = "finishCalibration"
  /\ ~isCalibrating
  /\ pixelsPerFoot = [n |-> 10, d |-> 1]
  /\ points = << >>

\* ---- C10
\* C10: finishing a calibration with a distance that is not positive, with
\* fewer than two reference points or with two coinciding reference points
\* raises nothing and changes nothing: scale, calibration mode, reference
\* points, dialog and polygon stay as they are.
C10_FailedCalibrationIsNoOp ==
  /\ [][(/\ lastOp' = "finishCalibration"
         /\ \/ calibrationDistanceInput.nan
            \/ calibrationDistanceInput.half <= 0
            \/ Len(calibrationPoints) < 2
            \/ DistSq(calibrationPoints[1], calibrationPoints[2]) = 0) =>
          UNCHANGED << polyVars, calVars, scanVars, sessVars >>]_vars
  /\ [](~threw)
  /\ [](showCalibrationModal => Len(calibrationPoints) = 2)

\* A calibration with distinct reference points was refused for its distance.
C10_Witness ==
  /\ lastOp = "finishCalibration"
  /\ showCalibrationModal
  /\ isCalibrating
  /\ ~calibrationDistanceInput.nan
  /\ calibrationDistanceInput.half <= 0
  /\ calibrationPoints[1] # calibrationPoints[2]

\* ---- C11
\* C11: a failed finishCalibration is recoverable: in every state it leaves
\* (the dialog still open), the user can retry to success, either because
\* some new distance would now be accepted for the reference points taken, or
\* because an operation that takes new reference points (capture, or leaving
\* and re-entering calibration) is available.
C11_FailedCalibrationRecoverable ==
  (mounted /\ showCalibrationModal /\ lastOp = "finishCalibration") =>
    \/ \E v \in TypedInputs :
         CalibrationValid(calculatePixelDistance(calibrationPoints[1],
                                                 calibrationPoints[2]), v)
    \/ ENABLED CapturePoint(MaxVerts)
    \/ ENABLED ToggleCalibration

\* ---- C12
\* C12: every step of the Scale toggle that turns calibration mode on leaves
\* the reference points empty, whatever was captured in an earlier,
\* unfinished calibration.
C12_EnteringCalibrationClearsReferencePoints ==
  [][(lastOp' = "toggleCalibration" /\ isCalibrating') =>
       calibrationPoints' = << >>]_vars

\* ---- C13
\* C13: there are never more than two reference points, and the dialog that
\* asks for the distance opens in exactly the steps that capture the second
\* reference point.
C13_AtMostTwoReferencePoints ==
  /\ [](Len(calibrationPoints) <= 2)
  /\ [][(showCalibrationModal' /\ ~showCalibrationModal) <=>
          (/\ lastOp' \in CaptureLogs
           /\ isCalibrating
           /\ Len(calibrationPoints) = 1
           /\ Len(calibrationPoints') = 2)]_vars

\* The second reference point, apart from the first, has just opened the dialog.
C13_Witness ==
  /\ lastOp = "capture"
  /\ showCalibrationModal
  /\ Len(calibrationPoints) = 2
  /\ calibrationPoints[1] # calibrationPoints[2]

\* ---- C14
\* C14: the scale is 35 when the session starts, is strictly positive in every
\* state, and while the session lasts it changes only in a step of
\* finishCalibration that succeeds (the dialog closes).
C14_ScalePositive ==
  /\ pixelsPerFoot = [n |-> 35, d |-> 1]
  /\ [](pixelsPerFoot.n > 0 /\ pixelsPerFoot.d > 0)
  /\ [][(mounted' /\ pixelsPerFoot' # pixelsPerFoot) =>
          (/\ lastOp' = "finishCalibration"
           /\ showCalibrationModal
           /\ ~showCalibrationModal')]_vars

\* A calibration has just set a scale that is not a whole number of pixels.
C14_Witness ==
  /\ lastOp = "finishCalibration"
  /\ mounted
  /\ pixelsPerFoot.d > 1

\* Vocabulary of the detector's statements.  A step of the clock:
ClockLogs == { "tick", "autoCapture", "cooldownExpiry" }

\* The periods of hold (400 / 50) and the periods of ramp (ceiling of 100 / 8).
HoldTicks == 400 \div 50
RampTicks == (100 + 8 - 1) \div 8

\* lastMotionTimestamp is still the instant of the last sample (no cooldown
\* expiry has rewritten it since).
QuietSince ==
  sinceMotion = IF trace.still * 50 > 400 THEN 450 ELSE trace.still * 50

\* ---- C15
\* C15: a motion sample delivered while the detector is active resets the
\* scan progress to 0 and makes lastMotionTimestamp the present instant when
\* its magnitude exceeds 0.8; a sample of 0.8 or less leaves both as they are.
C15_MotionResetsIffAboveThreshold ==
  [][lastOp' = "motion" =>
       IF trace'.sample > 8
       THEN scanProgress' = 0 /\ sinceMotion' = 0
       ELSE UNCHANGED << scanProgress, sinceMotion >>]_vars

\* A sample of exactly 0.8 has arrived while the ring was filling.
C15_Witness ==
  /\ lastOp = "motion"
  /\ trace.sample = 8
  /\ scanProgress > 0
  /\ sinceMotion > 0

\* ---- C16
\* C16: counting the 50 ms periods since a sample above 0.8 at time T, with
\* the detector active, not cooling down and no further motion: progress is 0
\* in every state up to T + 400; from then on every tick adds 8; the 13th
\* such tick fires the auto-capture; and no auto-capture ever fires before
\* T + 1000.
C16_HoldThenRamp ==
  /\ [](trace.still <= HoldTicks => scanProgress = 0)
  /\ [][(/\ lastOp' \in ClockLogs
         /\ intervalOn /\ ~scanCooldownRef /\ QuietSince
         /\ trace.still >= HoldTicks
         /\ scanProgress = 8 * (trace.still - HoldTicks)) =>
          IF trace.still - HoldTicks + 1 < RampTicks
          THEN lastOp' = "tick" /\ scanProgress' = scanProgress + 8
          ELSE lastOp' = "autoCapture"]_vars
  /\ [][lastOp' = "autoCapture" => trace'.still * 50 >= 1000]_vars

\* The auto-capture has fired 21 periods after the last sample, on a polygon
\* that already had a vertex.
C16_Witness ==
  /\ lastOp = "autoCapture"
  /\ trace.still = HoldTicks + RampTicks
  /\ Len(points) = 2

\* ---- C17
\* C17: progress reaches 100 only in a step that fires the auto-capture; that
\* step runs the capture once and starts the cooldown; no auto-capture fires
\* while a cooldown is pending, whatever ticks and samples arrive; the
\* cooldown ends 1500 ms after it started, and then cooldownActive is false,
\* progress is 0 and lastMotionTimestamp is the present instant.
C17_OneCapturePerCooldown ==
  /\ [][(scanProgress' = 100 /\ scanProgress # 100) =>
          lastOp' = "autoCapture"]_vars
  /\ [][lastOp' = "autoCapture" =>
          /\ ~scanCooldownRef /\ timeouts = {}
          /\ scanCooldownRef' /\ timeouts' = { 1500 }
          /\ points' = CaptureNow.points
          /\ isClosed' = CaptureNow.isClosed]_vars
  /\ [](timeouts # {} => scanCooldownRef)
  /\ [][(timeouts # {} /\ lastOp' \in ClockLogs) =>
          IF timeouts = { 50 }
          THEN /\ lastOp' = "cooldownExpiry"
               /\ timeouts' = {}
               /\ ~scanCooldownRef'
               /\ scanProgress' = 0
               /\ sinceMotion' = 0
          ELSE /\ lastOp' = "tick"
               /\ timeouts' = { t - 50 : t \in timeouts }
               /\ scanCooldownRef']_vars

\* A cooldown has just ended, motion samples having arrived during it.
C17_Witness ==
  /\ lastOp = "cooldownExpiry"
  /\ mounted
  /\ Len(points) = 1
  /\ trace.still < 1500 \div 50

\* ---- C18
\* C18: while the session is calibrating or the polygon is closed, the scan
\* progress is 0, neither the listeners nor the interval are registered, no
\* tick changes the progress and no auto-capture fires.
C18_DetectorSuspended ==
  /\ []((mounted /\ (isCalibrating \/ isClosed)) =>
          (scanProgress = 0 /\ ~intervalOn))
  /\ [][(lastOp' \in ClockLogs /\ (isCalibrating \/ isClosed)) =>
          (lastOp' # "autoCapture" /\ scanProgress' = 0)]_vars

\* A tick has passed over a closed polygon, long still and not cooling down.
C18_Witness ==
  /\ lastOp = "tick"
  /\ mounted /\ isClosed /\ isAutoScan
  /\ ~scanCooldownRef
  /\ sinceMotion > 400
  /\ scanProgress = 0

\* Length of the segment from p to q (a whole number on this domain).
Side(p, q) == LET d2 == DistSq(p, q) IN CHOOSE r \in 0..d2 : r * r = d2

\* Length of the open chain pts, consecutive vertices joined.
ChainLength(pts) ==
  LET sum[i \in 1..Len(pts)] ==
        IF i = 1 THEN 0 ELSE sum[i - 1] + Side(pts[i - 1], pts[i])
  IN  sum[Len(pts)]

\* ---- C19
\* C19: with at least one vertex, the perimeter the statistics give, taken
\* back to pixels, is for an open polygon the length of the chain of vertices
\* plus the live edge from the last vertex to the centre, also when there is
\* exactly one vertex, and for a closed polygon the length of the cycle.
C19_Perimeter ==
  (mounted /\ Len(points) >= 1) =>
    LET s == stats(points, isClosed, pixelsPerFoot, viewport).perimeter
        px == IF isClosed THEN CycleLength(points)
              ELSE ChainLength(points)
                   + Side(points[Len(points)], Center(viewport))
    IN  s.num * pixelsPerFoot.n = px * pixelsPerFoot.d * s.den

\* Every edge of the cycle pts has a whole length.
WholeEdges(pts) ==
  \A i \in 1..Len(pts) :
    LET d2 == DistSq(pts[i], pts[(i % Len(pts)) + 1])
    IN  \E r \in 0..d2 : r * r = d2

\* ---- C20
\* C20: the area and the perimeter measured for a closed list of three or
\* more grid points are the area and the perimeter of the same list started
\* at another vertex or listed in the opposite direction.
C20_RotationReversalInvariant ==
  /\ result.area2 = StatsPxNumber(points).area2
  /\ result.perimeter = StatsPxNumber(points).perimeter

\* C20, amended: the area is the same for every such listing; the perimeter
\* is the same up to the rounding of its additions, two listings of n
\* vertices being at most n - 1 units in the last place apart, and it is the
\* same exactly when every edge has a whole length.
C20_AreaExactPerimeterRounded ==
  LET now == StatsPxNumber(points)
      big == IF now.perimeter > result.perimeter
             THEN now.perimeter ELSE result.perimeter
  IN  /\ result.area2 = now.area2
      /\ Abs(result.perimeter - now.perimeter) <= (Len(points) - 1) * Ulp(big)
      /\ WholeEdges(points) => result.perimeter = now.perimeter

\* A triangle of non-zero area, measured and then listed the other way
\* round: the two perimeters differ in the last place.
C20_Witness ==
  /\ lastOp = "reverse"
  /\ result.area2 > 0
  /\ result.perimeter # StatsPxNumber(points).perimeter

\* C29: calibration mode is entered and left only while there is no vertex,
\* whether by the Scale toggle or by a successful finishCalibration; so in
\* every state calibration mode implies an empty vertex sequence and an open
\* polygon (Calibrating and Measuring-Closed never overlap), and
\* finishCalibration never discards a captured vertex.
C29_CalibrationOnlyWithoutVertices ==
  /\ [](isCalibrating => points = << >> /\ ~isClosed)
  /\ [][mounted' /\ isCalibrating' # isCalibrating
        => points = << >> /\ points' = << >> /\ ~isClosed /\ ~isClosed']_vars

\* C29 witness: calibration mode was entered during the cooldown of an
\* auto-capture whose vertex had been undone.
C29_Witness ==
  /\ isCalibrating
  /\ scanCooldownRef
  /\ Len(calibrationPoints) = 1

\* C26: while the session lasts, every step leaves the vertex sequence as it
\* is, appends the viewport centre at its end, or removes its last point; the
\* recorded points are never modified or reordered.  A motion sample, a mouse
\* move, a resize, a calibration toggle, finishCalibration, and a tick that
\* does not fire (cooldown expiry included) leave a non-empty sequence as it
\* is.
C26_VerticesChangeByCaptureAndUndo ==
  /\ [][mounted'
        => \/ points' = points
           \/ points' = Append(points, Center(viewport))
           \/ Len(points) > 0 /\ points' = SubSeq(points, 1, Len(points) - 1)]_vars
  /\ [][/\ mounted'
        /\ points # << >>
        /\ \/ \E m \in Magnitudes : Motion(m)
           \/ MouseMove
           \/ \E v \in Viewports : Resize(v)
           \/ ToggleCalibration
           \/ FinishCalibration
           \/ Tick(MaxVertsClock) /\ (scanCooldownRef \/ ~scanCooldownRef')
        => points' = points]_vars

\* C26 witness: three vertices, the first two distinct, the container resized
\* since the third was captured, and a cooldown running.
C26_Witness ==
  /\ Len(points) = 3
  /\ points[1] # points[2]
  /\ points[3] # Center(viewport)
  /\ scanCooldownRef

\* C25: scan progress is within 0..100 in every state, the increment that
\* would pass 100 giving 100; a motion sample above the threshold, a mouse
\* move, entering calibration mode and closing the polygon each leave it at 0.
C25_ProgressBounded ==
  /\ [](scanProgress \in 0..FullProgress)
  /\ [][/\ scanProgress + FillSpeed > FullProgress
        /\ lastOp' = "autoCapture"
        /\ scanCooldownRef'
        /\ ~isClosed'
        => scanProgress' = FullProgress]_vars
  /\ [][\/ lastOp' = "motion" /\ trace'.sample > MotionThreshold
        \/ lastOp' = "mouseMove"
        \/ isCalibrating' /\ ~isCalibrating
        \/ isClosed' /\ ~isClosed
        => scanProgress' = 0]_vars

\* C25 witness: the ring stood at 96 and the next increment left it at 100.
C25_Witness ==
  /\ lastOp = "autoCapture"
  /\ scanProgress = FullProgress
  /\ Len(points) = 2
  /\ ~isClosed

\* C27: in a session whose container keeps one size, every vertex is the
\* same point, the vertex sequence never has more than 3 points, the capture
\* that follows the third closes the polygon and leaves exactly those 3
\* points, and completeMeasurement reports area 0 and perimeter 0.
C27_OneViewportDegeneratePolygon ==
  /\ [](\A i \in 1..Len(points) : points[i] = Center(viewport))
  /\ [](Len(points) <= 3)
  /\ [][Len(points) = 3 /\ ~isClosed /\ mounted' /\ points' # points
        => points' = SubSeq(points, 1, 2)]_vars
  /\ [][isClosed' /\ ~isClosed => Len(points) = 3 /\ points' = points]_vars
  /\ [][completeCalls' # completeCalls
        => isClosed /\ result' = [area |-> 0, perimeter |-> 0]]_vars

\* C27 witness: the closed polygon of three equal vertices was completed.
C27_Witness ==
  /\ lastOp = "complete"
  /\ completeCalls = 1
  /\ ~mounted

\* C28: when the second reference point is captured with the container at
\* the size it had for the first, the two reference points coincide and their
\* pixel distance is 0; from then on, for as long as the session lasts, every
\* finishCalibration fails whatever distance is entered: the dialog stays, the
\* reference points stay, and the scale keeps its value.
C28_CoincidingReferencePointsNeverCalibrate ==
  /\ [][/\ Len(calibrationPoints) = 1
        /\ Len(calibrationPoints') = 2
        /\ calibrationPoints[1] = Center(viewport)
        => /\ calibrationPoints'[1] = calibrationPoints'[2]
           /\ calculatePixelDistance(calibrationPoints'[1],
                                     calibrationPoints'[2]) = 0]_vars
  /\ [][/\ mounted
        /\ Len(calibrationPoints) = 2
        /\ calibrationPoints[1] = calibrationPoints[2]
        /\ mounted'
        => /\ showCalibrationModal'
           /\ isCalibrating'
           /\ calibrationPoints' = calibrationPoints
           /\ pixelsPerFoot' = pixelsPerFoot]_vars

\* C28 witness: a positive distance was applied to coinciding reference
\* points after the container had been resized, and the dialog is still open.
C28_Witness ==
  /\ lastOp = "finishCalibration"
  /\ showCalibrationModal
  /\ calibrationPoints[1] = calibrationPoints[2]
  /\ calibrationPoints[1] # Center(viewport)
  /\ ~calibrationDistanceInput.nan
  /\ calibrationDistanceInput.half > 0

\* A tick at which the detector fires.
AutoCaptureStep == Tick(MaxVertsClock) /\ ~scanCooldownRef /\ scanCooldownRef'

\* The calibration and polygon state a capture can leave: the state as it is
\* with the polygon open or closed, and the state with one more vertex.
CaptureCandidates ==
  { [points |-> p, isClosed |-> c, isCalibrating |-> isCalibrating,
     calibrationPoints |-> calibrationPoints, pixelsPerFoot |-> pixelsPerFoot,
     showCalibrationModal |-> showCalibrationModal] :
    p \in { points } \cup { Append(points, q) :
                             q \in { Center(v) : v \in Viewports }
                                   \cup { [x |-> 0, y |-> 0] } },
    c \in BOOLEAN }

\* The step leaves the calibration and polygon state o.
Leaves(o) ==
  /\ points' = o.points
  /\ isClosed' = o.isClosed
  /\ isCalibrating' = o.isCalibrating
  /\ calibrationPoints' = o.calibrationPoints
  /\ pixelsPerFoot' = o.pixelsPerFoot
  /\ showCalibrationModal' = o.showCalibrationModal

\* The ring is one increment from full and the next tick fires.
CanFire == scanProgress + FillSpeed >= FullProgress /\ ENABLED AutoCaptureStep

\* C23: in every state where the detector can fire, its capture leaves one of
\* the candidate states, and the Capture button pressed in that same state
\* leaves the same one and no other: same vertices, closed flag, reference
\* points and scale.  The button leaves the cooldown as it is; the detector
\* starts it.
C23_AutoCaptureEqualsManualCapture ==
  (Reachable /\ CanFire) =>
    /\ \E o \in CaptureCandidates : ENABLED (AutoCaptureStep /\ Leaves(o))
    /\ \A o \in CaptureCandidates :
         ENABLED (AutoCaptureStep /\ Leaves(o))
           <=> ENABLED (CapturePoint(MaxVertsClock) /\ Leaves(o))
    /\ ENABLED (CapturePoint(MaxVertsClock)
                /\ scanCooldownRef' = scanCooldownRef
                /\ timeouts' = timeouts)

\* C23 witness: the detector is about to fire on an open polygon of two
\* distinct vertices with the container resized since the last one.
C23_Witness ==
  /\ Reachable
  /\ CanFire
  /\ Len(points) = 2
  /\ points[1] # points[2]
  /\ points[2] # Center(viewport)

\* C24: no motion sample above the threshold is lost: whenever the detector
\* is active, the elapsed time it computes from lastMotionTimestamp is no
\* longer than the time since the most recent such sample, samples that
\* arrived while the session was in calibration mode, closed or switched off
\* included.
C24_NoSampleLost ==
  intervalOn => sinceMotion <= trace.still * TickPeriod

\* A tick of the one-size session at which the detector fires.
AutoCaptureStepScan == Tick(MaxVerts) /\ ~scanCooldownRef /\ scanCooldownRef'

\* A sample that resets the detector arrives.
MotionArrives ==
  \/ \E m \in Magnitudes : m > MotionThreshold /\ Motion(m)
  \/ MouseMove

\* C30: under a clock that keeps running, if from some point on the detector
\* stays active (open polygon, auto-scan on, no calibration) and no sample
\* above the threshold arrives, an auto-capture fires, again and again; and
\* whenever the cooldown is on it is eventually off again.
C30_DetectorEventuallyFires ==
  /\ \/ []<>(~intervalOn)
     \/ []<><<MotionArrives>>_vars
     \/ []<><<AutoCaptureStepScan>>_vars
  /\ (scanCooldownRef ~> ~scanCooldownRef)

\* C30 witness: the detector has fired on an open polygon, its ring is full
\* and its cooldown is on.
C30_Witness ==
  /\ intervalOn
  /\ scanProgress = FullProgress
  /\ scanCooldownRef
  /\ Len(points) = 1

\* Vocabulary of the room-dimension statements: what the back-solve gives
\* for the report in hand, and the report being that of the w by l rectangle.
Solved == effectiveDimensions(result.area, result.perimeter, 0, 0)

RoomAddedFor(w, l) ==
  /\ lastOp = "addRoom"
  /\ w <= l
  /\ result = RectangleReport(w, l)

\* C21 as stated: for every rectangle with sides w <= l, back-solving from
\* its area and perimeter computes the discriminant (l - w)^2 >= 0 and
\* returns length l and width w; the square fallback is taken exactly when
\* the discriminant is negative.
C21_BackSolveRoundTrip ==
  /\ \A w, l \in Sides :
       RoomAddedFor(w, l) =>
         /\ Solved.discriminant >= 0
         /\ Solved.discriminant * Unit = (l - w) * (l - w)
         /\ Solved.effectiveLength = l
         /\ Solved.effectiveWidth = w
  /\ (lastOp = "addRoom" /\ result.area # 0 /\ result.perimeter # 0) =>
       (Solved.branch = "square" <=> Solved.discriminant < 0)

\* C21 amended: the round trip is exact for whole sides, every intermediate
\* value being a Number; for any sides the fallback is taken exactly when the
\* computed discriminant is negative and gives the root of the area twice,
\* and otherwise length >= width and length + width is the semi-perimeter to
\* within one unit in its last place.  The room added carries both values
\* through toFixed(2).
C21_RoundTripExactForWholeSides ==
  /\ \A w, l \in WholeSides :
       RoomAddedFor(w, l) =>
         /\ Solved.discriminant >= 0
         /\ Solved.discriminant * Unit = (l - w) * (l - w)
         /\ Solved.effectiveLength = l
         /\ Solved.effectiveWidth = w
         /\ rooms[Len(rooms)] = [width |-> w, length |-> l]
  /\ (lastOp = "addRoom" /\ result.area # 0 /\ result.perimeter # 0) =>
       /\ Solved.branch = "square" <=> Solved.discriminant < 0
       /\ Solved.branch = "square" =>
            /\ Solved.effectiveLength = SqrtOfNumber(result.area)
            /\ Solved.effectiveWidth = SqrtOfNumber(result.area)
       /\ Solved.branch = "roots" =>
            LET s == NumberOf(result.perimeter, 2)
            IN  /\ Solved.effectiveLength >= Solved.effectiveWidth
                /\ Abs(Solved.effectiveLength + Solved.effectiveWidth - s)
                     <= Ulp(s)
       /\ Len(rooms) >= 1
       /\ rooms[Len(rooms)].length = ToFixed2Number(Solved.effectiveLength)
       /\ rooms[Len(rooms)].width = ToFixed2Number(Solved.effectiveWidth)

\* C21 witness: the 2 by 3 rectangle came back as a room of width 2 and
\* length 3.
C21_Witness ==
  /\ RoomAddedFor(Feet(2), Feet(3))
  /\ rooms = << [width |-> Feet(2), length |-> Feet(3)] >>

\* C22 as stated: area 100 with perimeter 40 has discriminant 0 and sides 10
\* and 10; area 50 with perimeter 60 has a negative discriminant and takes
\* the square fallback, both sides the root of 50.
C22_BackSolveExamples ==
  /\ (lastOp = "addRoom"
      /\ result = [area |-> Feet(100), perimeter |-> Feet(40)]) =>
       /\ Solved.discriminant = 0
       /\ Solved.effectiveLength = Feet(10)
       /\ Solved.effectiveWidth = Feet(10)
  /\ (lastOp = "addRoom"
      /\ result = [area |-> Feet(50), perimeter |-> Feet(60)]) =>
       /\ Solved.discriminant < 0
       /\ Solved.branch = "square"
       /\ Solved.effectiveLength = SqrtOfNumber(Feet(50))
       /\ Solved.effectiveWidth = SqrtOfNumber(Feet(50))

\* C22 amended: area 100 with perimeter 40 has discriminant 0, takes the
\* roots and gives 10 and 10; area 50 with perimeter 60 has discriminant
\* 30^2 - 200 = 700, takes the roots and gives a length above and a width
\* below the root of 50, adding up to 30; area 100 with perimeter 30 has
\* discriminant 225 - 400 < 0 and takes the square fallback, 10 and 10.
C22_ExamplesAsComputed ==
  /\ (lastOp = "addRoom"
      /\ result = [area |-> Feet(100), perimeter |-> Feet(40)]) =>
       /\ Solved.discriminant = 0
       /\ Solved.branch = "roots"
       /\ Solved.effectiveLength = Feet(10)
       /\ Solved.effectiveWidth = Feet(10)
  /\ (lastOp = "addRoom"
      /\ result = [area |-> Feet(50), perimeter |-> Feet(60)]) =>
       /\ Solved.discriminant = Feet(700)
       /\ Solved.branch = "roots"
       /\ Solved.effectiveLength > SqrtOfNumber(Feet(50))
       /\ Solved.effectiveWidth < SqrtOfNumber(Feet(50))
       /\ Abs(Solved.effectiveLength + Solved.effectiveWidth - Feet(30))
            <= Ulp(Feet(30))
  /\ (lastOp = "addRoom"
      /\ result = [area |-> Feet(100), perimeter |-> Feet(30)]) =>
       /\ Solved.discriminant = -Feet(175)
       /\ Solved.branch = "square"
       /\ Solved.effectiveLength = Feet(10)
       /\ Solved.effectiveWidth = Feet(10)

\* C22 witness: the report of area 50 and perimeter 60 became a room longer
\* than wide.
C22_Witness ==
  /\ lastOp = "addRoom"
  /\ result = [area |-> Feet(50), perimeter |-> Feet(60)]
  /\ Len(rooms) = 1
  /\ rooms[1].length > rooms[1].width

====
